---- MODULE Spec2Model ----
(***************************************************************************)
(* Model of the image-analysis server (src/unnamed/part_000): the handler  *)
(* of POST /api/analyze-image, its call to the inference collaborator and  *)
(* the response-shaping pipeline (extract, parse, validate, fit, fallback).*)
(*                                                                         *)
(* Strings are sequences of one-character strings.  JSON values are        *)
(* records [t |-> type, v |-> payload].  A raw completion is a sequence of *)
(* lexemes (brace, comma, prose, "key": value member).                     *)
(***************************************************************************)
EXTENDS Integers, Sequences, FiniteSets, TLC

VARIABLES pc, body, calls, outcome, sent

vars == <<pc, body, calls, outcome, sent>>

----------------------------------------------------------------------------
(* Bounds of the model *)

\* number of concurrent requests in SpecConc
NumReqs == 2
\* title / description candidates have 0..MaxStrLen characters
MaxStrLen == 5
\* the small limits are 1..MaxLimit
MaxLimit == 5
\* single raw tags have 0..MaxTagLen characters
MaxTagLen == 3
\* tag arrays for the accumulation loop have 0..MaxTags elements
MaxTags == 3
\* generic raw completions have 0..MaxTextLen lexemes
MaxTextLen == 3

----------------------------------------------------------------------------
(* Strings *)

Chars(s) == [i \in 1..Len(s) |-> SubSeq(s, i, i)]

Min(a, b) == IF a <= b THEN a ELSE b
Max(a, b) == IF a >= b THEN a ELSE b

\* String.prototype.substring(start, end): both arguments are clamped to
\* 0..length and swapped when start > end.
Substring(s, start, end) ==
  LET a == Min(Max(start, 0), Len(s))
      b == Min(Max(end, 0), Len(s))
  IN  SubSeq(s, Min(a, b) + 1, Max(a, b))

Ellipsis == Chars("...")

\* the characters the regular expression class \s matches, among those used
IsSpace(c) == c \in {" ", "\t"}

RECURSIVE TrimStart(_)
TrimStart(s) ==
  IF s # <<>> /\ IsSpace(Head(s)) THEN TrimStart(Tail(s)) ELSE s

RECURSIVE TrimEnd(_)
TrimEnd(s) ==
  IF s # <<>> /\ IsSpace(s[Len(s)]) THEN TrimEnd(SubSeq(s, 1, Len(s) - 1)) ELSE s

\* String.prototype.trim()
Trim(s) == TrimEnd(TrimStart(s))

\* the character class [#\s]
IsHashOrSpace(c) == c = "#" \/ IsSpace(c)

\* t.replace(/[#\s]+/g, ' '): every maximal run of '#' or whitespace
\* becomes one space
RECURSIVE ReplaceRuns(_)
ReplaceRuns(s) ==
  IF s = <<>> THEN <<>>
  ELSE IF IsHashOrSpace(Head(s))
       THEN IF Len(s) > 1 /\ IsHashOrSpace(s[2])
            THEN ReplaceRuns(Tail(s))
            ELSE <<" ">> \o ReplaceRuns(Tail(s))
       ELSE <<Head(s)>> \o ReplaceRuns(Tail(s))

----------------------------------------------------------------------------
(* JSON values *)

Undef == [t |-> "undefined", v |-> <<>>]
Null == [t |-> "null", v |-> <<>>]
Str(s) == [t |-> "string", v |-> s]
Num(n) == [t |-> "number", v |-> <<n>>]
Bool(b) == [t |-> "boolean", v |-> <<b>>]
Obj == [t |-> "object", v |-> <<>>]
Arr(a) == [t |-> "array", v |-> a]

\* !x
Falsy(x) ==
  \/ x.t \in {"undefined", "null"}
  \/ x.t = "string" /\ x.v = <<>>
  \/ x.t = "number" /\ x.v[1] = 0
  \/ x.t = "boolean" /\ x.v[1] = FALSE

\* Array.isArray(x)
IsArray(x) == x.t = "array"

\* x.length > limit; a value without a length property compares as false
LengthExceeds(x, limit) ==
  x.t \in {"string", "array"} /\ Len(x.v) > limit

----------------------------------------------------------------------------
(* Raw completions: sequences of lexemes *)

Lex(lx) == [lx |-> lx, k |-> "", val |-> Undef]
LBrace == Lex("{")
RBrace == Lex("}")
Comma == Lex(",")
Prose == Lex("prose")
\* the lexeme  "k": val
Member(k, val) == [lx |-> "member", k |-> k, val |-> val]

SetMin(S) == CHOOSE x \in S : \A y \in S : x <= y
SetMax(S) == CHOOSE x \in S : \A y \in S : x >= y

\* a lazy match, /\{[\s\S]*?\}/: from the first '{' to the first '}' after it
JsonMatchLazy(text) ==
  LET opens == {i \in 1..Len(text) :
                  /\ text[i] = LBrace
                  /\ \E j \in (i + 1)..Len(text) : text[j] = RBrace}
  IN  IF opens = {} THEN [found |-> FALSE, span |-> <<>>]
      ELSE LET first == SetMin(opens)
               last == SetMin({j \in (first + 1)..Len(text) : text[j] = RBrace})
           IN  [found |-> TRUE, span |-> SubSeq(text, first, last)]

\* text.match(/\{[\s\S]*\}/): the leftmost '{' that has a '}' after it, up to
\* the last '}' of the text; null when there is none
JsonMatch(text) ==
  LET opens == {i \in 1..Len(text) :
                  /\ text[i] = LBrace
                  /\ \E j \in (i + 1)..Len(text) : text[j] = RBrace}
  IN  IF opens = {} THEN [found |-> FALSE, span |-> <<>>]
      ELSE LET first == SetMin(opens)
               last == SetMax({j \in (first + 1)..Len(text) : text[j] = RBrace})
           IN  [found |-> TRUE, span |-> SubSeq(text, first, last)]

\* whether JSON.parse accepts the span: one object, members separated by commas
JsonValid(span) ==
  /\ Len(span) >= 2
  /\ span[1] = LBrace
  /\ span[Len(span)] = RBrace
  /\ LET inner == SubSeq(span, 2, Len(span) - 1)
     IN  \/ inner = <<>>
         \/ /\ Len(inner) % 2 = 1
            /\ \A i \in 1..Len(inner) :
                 IF i % 2 = 1 THEN inner[i].lx = "member" ELSE inner[i] = Comma

\* property k of the object JSON.parse returns (the last member named k wins),
\* undefined when the object has none
JsonField(span, k) ==
  LET at == {i \in 1..Len(span) : span[i].lx = "member" /\ span[i].k = k}
  IN  IF at = {} THEN Undef ELSE span[SetMax(at)].val

\* JSON.parse(jsonMatch[0]) followed by the destructuring of line 102
JsonParse(span) ==
  IF JsonValid(span)
  THEN [ok |-> TRUE,
        title |-> JsonField(span, "title"),
        description |-> JsonField(span, "description"),
        tags |-> JsonField(span, "tags")]
  ELSE [ok |-> FALSE, title |-> Undef, description |-> Undef, tags |-> Undef]

----------------------------------------------------------------------------
(* Validation and field fitting *)

\* the condition of line 104 that throws 'Invalid response structure'
InvalidStructure(title, description, tags) ==
  Falsy(title) \/ Falsy(description) \/ ~IsArray(tags)

\* a truncation that keeps limit characters and leaves no room for the ellipsis
FitFieldNoRoom(x, limit) ==
  IF LengthExceeds(x, limit)
  THEN IF x.t = "string"
       THEN [thrown |-> FALSE, val |-> Str(Substring(x.v, 0, limit) \o Ellipsis)]
       ELSE [thrown |-> TRUE, val |-> Undef]
  ELSE [thrown |-> FALSE, val |-> x]

\* x.length > limit ? x.substring(0, limit - 3) + '...' : x
\* (lines 109 and 110); substring is a method of strings only, so the call
\* throws a TypeError on any other value that has a length above the limit
FitField(x, limit) ==
  IF LengthExceeds(x, limit)
  THEN IF x.t = "string"
       THEN [thrown |-> FALSE, val |-> Str(Substring(x.v, 0, limit - 3) \o Ellipsis)]
       ELSE [thrown |-> TRUE, val |-> Undef]
  ELSE [thrown |-> FALSE, val |-> x]

\* the filter of line 114
KeepTag(t) == t.t = "string" /\ Len(Trim(t.v)) > 0

\* the map of line 115
NormalizeTag(t) == Trim(ReplaceRuns(t.v))

\* normalizedTags (lines 113-115): filter, then map
NormalizedTags(tags) ==
  LET kept == SelectSeq(tags, KeepTag)
  IN  [i \in 1..Len(kept) |-> NormalizeTag(kept[i])]

RECURSIVE Accumulate(_, _, _, _, _)

\* a loop that skips a tag that does not fit and goes on (continue for break)
AfterRejectContinue(normalized, i, currentLength, acc, tagsLength) ==
  Accumulate(normalized, i + 1, currentLength, acc, tagsLength)

\* what the loop does with normalizedTags[i] once it fails the test of line 122
AfterReject(normalized, i, currentLength, acc, tagsLength) == acc

\* the loop of lines 119-128, from index i (1-based) on
Accumulate(normalized, i, currentLength, acc, tagsLength) ==
  IF i > Len(normalized) THEN acc
  ELSE LET tag == normalized[i]
           separatorLength == IF i = 1 THEN 0 ELSE 2
       IN  IF currentLength + separatorLength + Len(tag) <= tagsLength
           THEN Accumulate(normalized, i + 1,
                           currentLength + separatorLength + Len(tag),
                           Append(acc, tag), tagsLength)
           ELSE AfterReject(normalized, i, currentLength, acc, tagsLength)

\* finalTags (lines 117-128)
FinalTags(normalized, tagsLength) == Accumulate(normalized, 1, 0, <<>>, tagsLength)

----------------------------------------------------------------------------
(* Fallback result (lines 146-157) *)

\* line 147
TitleThreshold == 30

FallbackTitle(titleLength) ==
  IF titleLength > TitleThreshold
  THEN Chars("Image Analysis (Processing Complete)")
  ELSE Chars("Image Analysis (Analyzed)")

FallbackDescription ==
  Chars("The image has been processed and analyzed with detailed consideration of visual elements, composition, colors, and context.")

FallbackTags ==
  <<Chars("Image Analysis"), Chars("Visual Processing"), Chars("AI Detection")>>

\* lines 152-157: the truncation applied to a fallback field
FallbackFit(s, limit) ==
  IF Len(s) > limit THEN Substring(s, 0, limit - 3) \o Ellipsis ELSE s

FallbackResult(b) ==
  [title |-> Str(FallbackFit(FallbackTitle(b.titleLength), b.titleLength)),
   description |-> Str(FallbackFit(FallbackDescription, b.descriptionLength)),
   tags |-> FallbackTags]

----------------------------------------------------------------------------
(* The handler of POST /api/analyze-image *)

ResultFields == {"title", "description", "tags"}

\* res.json(finalResult) and res.json(fallbackResult); via records which
Ok200(via, r) ==
  [status |-> 200, via |-> via, fields |-> ResultFields,
   title |-> r.title, description |-> r.description, tags |-> r.tags]

\* res.status(400).json({ error })
Err400 ==
  [status |-> 400, via |-> "badRequest", fields |-> {"error"},
   title |-> Undef, description |-> Undef, tags |-> <<>>]

\* res.status(500).json({ error, details, fallback })
Err500 ==
  [status |-> 500, via |-> "serverError", fields |-> {"error", "details", "fallback"},
   title |-> Undef, description |-> Undef, tags |-> <<>>]

Thrown == [thrown |-> TRUE, title |-> Undef, description |-> Undef, tags |-> <<>>]

\* lines 101-134: validation and fitting of the parsed result g with the
\* limits of b
Shape(b, g) ==
  IF InvalidStructure(g.title, g.description, g.tags) THEN Thrown
  ELSE LET finalTitle == FitField(g.title, b.titleLength)
           finalDescription == FitField(g.description, b.descriptionLength)
       IN  IF finalTitle.thrown \/ finalDescription.thrown THEN Thrown
           ELSE [thrown |-> FALSE,
                 title |-> finalTitle.val,
                 description |-> finalDescription.val,
                 tags |-> CHOOSE finalTags \in
                            {FinalTags(normalizedTags, b.tagsLength) :
                               normalizedTags \in {NormalizedTags(g.tags.v)}} : TRUE]

\* the inner try block after the call has settled (lines 82-134): o is what
\* the inference collaborator did, b the limits the handler destructured.
\* jsonMatch (m), geminiResult (g) and normalizedTags are bound as the one
\* element of a set, which makes TLC compute each of them once.
TryBlock(b, o) ==
  IF o.kind # "text" THEN Thrown
  ELSE CHOOSE t \in
         {IF ~m.found THEN Thrown
          ELSE CHOOSE u \in {IF ~g.ok THEN Thrown ELSE Shape(b, g) :
                               g \in {JsonParse(m.span)}} : TRUE :
            m \in {JsonMatch(o.text)}} : TRUE

\* lines 82-160: the try block, and the catch block when it throws
Continue(b, o) ==
  LET t == TryBlock(b, o)
  IN  IF t.thrown THEN Ok200("fallback", FallbackResult(b)) ELSE Ok200("success", t)

\* a test that takes only an absent image for a missing one
MissingImageUndefinedOnly(b) == b.image.t = "undefined"

\* the test of line 35
MissingImage(b) == Falsy(b.image)

\* a catch block that calls the inference collaborator once more
RetryOnceInCatch(b, o) == IF TryBlock(b, o).thrown THEN 1 ELSE 0

\* the calls to the inference collaborator the catch block issues
RetriesInCatch(b, o) == 0

\* limits kept in one module-level variable that every request overwrites
LocalsShared(r) == body[SetMax({q \in DOMAIN pc : pc[q] # "idle"})]

\* the limits and image request r works with: the constants destructured
\* from its own req.body at line 33
LocalsOf(r) == body[r]

----------------------------------------------------------------------------
(* Inputs *)

SeqsUpTo(S, n) == UNION {[1..k -> S] : k \in 0..n}

Letters == Chars("abcdefghijkl")
Word(n) == SubSeq(Letters, 1, n)

\* req.body when the request carried no JSON body
NoBody ==
  [defined |-> FALSE, image |-> Undef, titleLength |-> 0, descriptionLength |-> 0,
   tagsLength |-> 0]

MkBody(image, tl, dl, gl) ==
  [defined |-> TRUE, image |-> image, titleLength |-> tl, descriptionLength |-> dl,
   tagsLength |-> gl]

\* body[r] before request r arrives
NotReceived == NoBody

RECURSIVE SumLen(_)
SumLen(tags) == IF tags = <<>> THEN 0 ELSE Len(Head(tags)) + SumLen(Tail(tags))

\* tags.join(', ').length, the length of the comma-joined rendering
JoinedLen(tags) == IF tags = <<>> THEN 0 ELSE SumLen(tags) + 2 * (Len(tags) - 1)

TitleLimits ==
  (1..MaxLimit) \cup {Len(FallbackTitle(1)), TitleThreshold + 1, Len(FallbackTitle(TitleThreshold + 1))}
DescriptionLimits == {2, MaxLimit - 1, Len(FallbackDescription)}
TagsLimits == (1..MaxLimit) \cup {JoinedLen(FallbackTags) - 1, JoinedLen(FallbackTags)}

Image == Str(Chars("img"))

\* Scenario A of the specification: limits (20, 40, 20)
ScenarioABody == MkBody(Image, 20, 40, 20)

Bodies ==
  {NoBody, ScenarioABody}
    \cup {MkBody(i, 3, 3, 3) : i \in {Undef, Null, Str(<<>>)}}
    \cup {MkBody(Image, tl, dl, gl) :
            tl \in TitleLimits, dl \in DescriptionLimits, gl \in TagsLimits}

\* values a model may put in the title or the description
FieldVals ==
  {Str(Word(n)) : n \in 0..MaxStrLen}
    \cup {Undef, Null, Num(0), Num(7), Bool(FALSE), Bool(TRUE), Obj,
          Arr(<<>>), Arr(<<Num(1), Num(2)>>)}

TagAlphabet == {"a", "#", " "}
AccumPool == {Str(Chars("a")), Str(Chars("bb")), Str(Chars("#")), Num(1)}

TagsVals ==
  {Arr(<<Str(s)>>) : s \in SeqsUpTo(TagAlphabet, MaxTagLen)}
    \cup {Arr(a) : a \in SeqsUpTo(AccumPool, MaxTags)}
    \cup {Arr(<<Str(Chars("a\t #b"))>>), Undef, Null, Obj, Str(Chars("a")), Num(1)}

RECURSIVE JoinMembers(_)
JoinMembers(ms) ==
  IF Len(ms) <= 1 THEN ms ELSE <<Head(ms), Comma>> \o JoinMembers(Tail(ms))

IsPresent(m) == m.val # Undef

\* the JSON text of the object { title, description, tags }; an undefined
\* value stands for a missing member
RenderObj(title, description, tags) ==
  <<LBrace>>
    \o JoinMembers(SelectSeq(<<Member("title", title),
                               Member("description", description),
                               Member("tags", tags)>>, IsPresent))
    \o <<RBrace>>

GenericLexemes == {LBrace, RBrace, Prose, Member("title", Str(Chars("a")))}

\* Scenario A of the specification: the object wrapped in prose
ScenarioAText ==
  <<Prose>>
    \o RenderObj(Str(Chars("A cat on a mat")),
                 Str(Chars("A small orange cat sits on a blue mat in a sunlit room.")),
                 Arr(<<Str(Chars("cat")), Str(Chars("mat")), Str(Chars("indoor")),
                       Str(Chars("pet"))>>))
    \o <<Prose>>

Texts ==
  {ScenarioAText} \cup
  {RenderObj(v, Str(Chars("d")), Arr(<<>>)) : v \in FieldVals}
    \cup {RenderObj(Str(Chars("t")), v, Arr(<<>>)) : v \in FieldVals}
    \cup {RenderObj(Str(Chars("t")), Str(Chars("d")), g) : g \in TagsVals}
    \cup {<<Prose>> \o RenderObj(Str(Word(MaxStrLen)), Str(Word(MaxStrLen)),
                                 Arr(<<Str(Chars("a")), Str(Chars("bb")), Str(Chars("a"))>>))
                    \o <<Prose>>}
    \cup SeqsUpTo(GenericLexemes, MaxTextLen)

NoOutcome == [kind |-> "none", text |-> <<>>]

Outcomes ==
  {[kind |-> "reject", text |-> <<>>], [kind |-> "textThrows", text |-> <<>>]}
    \cup {[kind |-> "text", text |-> t] : t \in Texts}

ConcBodies ==
  {NoBody, MkBody(Undef, 3, 3, 3), MkBody(Image, 2, 4, 4),
   MkBody(Image, MaxLimit, TitleThreshold, 47)}

ConcOutcomes ==
  {[kind |-> "reject", text |-> <<>>],
   [kind |-> "text",
    text |-> RenderObj(Str(Word(MaxStrLen)), Str(Word(MaxStrLen)),
                       Arr(<<Str(Chars("a")), Str(Chars("bb"))>>))]}

----------------------------------------------------------------------------
(* Actions *)

Reqs == DOMAIN pc

\* lines 31-72: request r arrives with body b; the handler runs up to the
\* await of model.generateContent, or answers at once
Receive(r, B) ==
  /\ pc[r] = "idle"
  /\ \E b \in B :
       /\ body' = [body EXCEPT ![r] = b]
       /\ IF ~b.defined
          THEN \* destructuring undefined throws; the outer catch answers 500
               /\ sent' = [sent EXCEPT ![r] = Append(@, Err500)]
               /\ pc' = [pc EXCEPT ![r] = "done"]
               /\ calls' = calls
          ELSE IF MissingImage(b)
          THEN /\ sent' = [sent EXCEPT ![r] = Append(@, Err400)]
               /\ pc' = [pc EXCEPT ![r] = "done"]
               /\ calls' = calls
          ELSE /\ calls' = [calls EXCEPT ![r] = @ + 1]
               /\ pc' = [pc EXCEPT ![r] = "awaiting"]
               /\ sent' = sent
  /\ UNCHANGED outcome

\* the promise of model.generateContent settles: it rejects, or resolves to
\* a response whose text() throws or returns a text
Settle(r, O) ==
  /\ pc[r] = "awaiting"
  /\ \E o \in O : outcome' = [outcome EXCEPT ![r] = o]
  /\ pc' = [pc EXCEPT ![r] = "settled"]
  /\ UNCHANGED <<body, calls, sent>>

\* a handler whose try block sends the success result and then throws, so
\* that the catch block sends the fallback result as well
ResumeSendsTwice(r) ==
  /\ pc[r] = "settled"
  /\ sent' = [sent EXCEPT ![r] =
                IF TryBlock(LocalsOf(r), outcome[r]).thrown
                THEN Append(@, Continue(LocalsOf(r), outcome[r]))
                ELSE Append(Append(@, Continue(LocalsOf(r), outcome[r])),
                            Ok200("fallback", FallbackResult(LocalsOf(r))))]
  /\ calls' = [calls EXCEPT ![r] = @ + RetriesInCatch(LocalsOf(r), outcome[r])]
  /\ pc' = [pc EXCEPT ![r] = "done"]
  /\ UNCHANGED <<body, outcome>>

\* lines 82-160: the handler resumes after the await and answers
Resume(r) ==
  /\ pc[r] = "settled"
  /\ sent' = [sent EXCEPT ![r] = Append(@, Continue(LocalsOf(r), outcome[r]))]
  /\ calls' = [calls EXCEPT ![r] = @ + RetriesInCatch(LocalsOf(r), outcome[r])]
  /\ pc' = [pc EXCEPT ![r] = "done"]
  /\ UNCHANGED <<body, outcome>>

InitFor(R) ==
  /\ pc = [r \in R |-> "idle"]
  /\ body = [r \in R |-> NotReceived]
  /\ calls = [r \in R |-> 0]
  /\ outcome = [r \in R |-> NoOutcome]
  /\ sent = [r \in R |-> <<>>]

\* one request, all inputs
Init == InitFor({1})

Next ==
  \/ \E r \in Reqs : Receive(r, Bodies)
  \/ \E r \in Reqs : Settle(r, Outcomes)
  \/ \E r \in Reqs : Resume(r)

Spec == Init /\ [][Next]_vars

\* NumReqs requests in flight at once
InitConc == InitFor(1..NumReqs)

NextConc ==
  \/ \E r \in Reqs : Receive(r, ConcBodies)
  \/ \E r \in Reqs : Settle(r, ConcOutcomes)
  \/ \E r \in Reqs : Resume(r)

SpecConc == InitConc /\ [][NextConc]_vars

\* SpecConc with the scheduling of the event loop: once the promise of
\* model.generateContent has settled, the continuation of the handler runs.
\* Nothing makes the inference collaborator answer, so Settle is not fair.
SpecConcLive == SpecConc /\ \A r \in 1..NumReqs : WF_vars(Resume(r))

----------------------------------------------------------------------------
(* Vocabulary of the properties *)

Done(r) == pc[r] = "done"

\* the response request r received
Resp(r) == sent[r][1]

\* request r carried a body with a truthy image
HasImage(r) == body[r].defined /\ ~Falsy(body[r].image)

\* the candidate the handler of request r parsed out of the completion
Candidate(r) == JsonParse(JsonMatch(outcome[r].text).span)

NonEmptyString(x) == x.t = "string" /\ x.v # <<>>

\* the shape the validator is specified to require
ValidShape(g) ==
  g.ok /\ NonEmptyString(g.title) /\ NonEmptyString(g.description) /\ g.tags.t = "array"

Success(r) == Done(r) /\ sent[r] # <<>> /\ Resp(r).via = "success"
Fallback(r) == Done(r) /\ sent[r] # <<>> /\ Resp(r).via = "fallback"

WithinLimits(r) ==
  /\ Resp(r).title.t = "string" => Len(Resp(r).title.v) <= body[r].titleLength
  /\ Resp(r).description.t = "string" =>
       Len(Resp(r).description.v) <= body[r].descriptionLength
  /\ JoinedLen(Resp(r).tags) <= body[r].tagsLength

----------------------------------------------------------------------------
(* C1 *)

\* C1: a success result made from a shape-validated candidate (string title,
\* string description, array tags) has title.length <= titleLength,
\* description.length <= descriptionLength and its tags joined with ", " no
\* longer than tagsLength, for all limits >= 1.
C1_SuccessWithinLimits ==
  \A r \in Reqs : Success(r) /\ ValidShape(Candidate(r)) => WithinLimits(r)

(* C2 *)

\* C2: a fallback result satisfies the same three length invariants as a
\* success result, for all limits >= 1.
C2_FallbackWithinLimits ==
  \A r \in Reqs : Fallback(r) => WithinLimits(r)

(* C3 *)

\* the inference collaborator failed, or returned no object, unparsable
\* JSON or JSON of the wrong shape
InferenceFailed(r) ==
  \/ outcome[r].kind # "text"
  \/ ~JsonMatch(outcome[r].text).found
  \/ ~ValidShape(Candidate(r))

\* C3: a request with an image is answered 200 with exactly the fields title,
\* description and tags, never with an error object, and with the fallback
\* result whenever the inference collaborator threw, returned no '{', returned
\* invalid JSON or returned JSON of the wrong shape.
C3_FailureGivesFallback ==
  \A r \in Reqs :
    Done(r) /\ HasImage(r) =>
      /\ Resp(r).status = 200
      /\ Resp(r).fields = ResultFields
      /\ InferenceFailed(r) => Resp(r) = Ok200("fallback", FallbackResult(body[r]))

(* C4 *)

\* C4: a request whose body has no image, or a falsy one, is answered 400 with
\* an error object, and no call to the inference collaborator is ever issued
\* for it.
C4_MissingImageRejected ==
  \A r \in Reqs :
    pc[r] # "idle" /\ body[r].defined /\ Falsy(body[r].image) =>
      /\ Done(r)
      /\ sent[r] = <<Err400>>
      /\ calls[r] = 0
      /\ outcome[r] = NoOutcome

C4_Witness ==
  \E r \in Reqs :
    /\ Done(r) /\ body[r].defined /\ body[r].image = Str(<<>>)
    /\ sent[r] = <<Err400>> /\ calls[r] = 0

(* C5 *)

\* C5: a candidate reaches the field fitter only if its title and description
\* are non-empty strings and its tags an array; for every other candidate the
\* fallback result is returned.
C5_OnlyValidShapeIsFitted ==
  \A r \in Reqs :
    Done(r) /\ HasImage(r) /\ outcome[r].kind = "text" /\ JsonMatch(outcome[r].text).found
      => IF ValidShape(Candidate(r))
         THEN Resp(r).via = "success"
         ELSE Resp(r) = Ok200("fallback", FallbackResult(body[r]))

(* C6 *)

CleanTag(tag) ==
  /\ tag # <<>>
  /\ \A i \in 1..Len(tag) : tag[i] # "#" /\ (IsSpace(tag[i]) => tag[i] = " ")
  /\ \A i \in 1..(Len(tag) - 1) : ~(tag[i] = " " /\ tag[i + 1] = " ")
  /\ tag[1] # " " /\ tag[Len(tag)] # " "

\* C6: every tag of a success result is a non-empty string without '#',
\* without a whitespace run other than a single space and without leading or
\* trailing whitespace; a raw tag that is empty after normalization never
\* appears in the output.
C6_TagsNormalized ==
  \A r \in Reqs :
    Success(r) => \A i \in 1..Len(Resp(r).tags) : CleanTag(Resp(r).tags[i])

(* C7 *)

\* the fitting steps applied to the result request r received
Refit(r) ==
  LET res == Resp(r)
  IN  [title |-> FitField(res.title, body[r].titleLength).val,
       description |-> FitField(res.description, body[r].descriptionLength).val,
       tags |-> FinalTags(NormalizedTags([i \in 1..Len(res.tags) |-> Str(res.tags[i])]),
                          body[r].tagsLength)]

\* C7: fitting is idempotent: truncation and the tag steps applied to a fitted
\* result of a shape-validated candidate, with the same limits, give the same
\* title, description and tag list.
C7_FittingIdempotent ==
  \A r \in Reqs :
    Success(r) /\ ValidShape(Candidate(r)) =>
      Refit(r) = [title |-> Resp(r).title, description |-> Resp(r).description,
                  tags |-> Resp(r).tags]

(* C8 *)

IsPrefix(p, q) == Len(p) <= Len(q) /\ p = SubSeq(q, 1, Len(p))

\* C8: the output tag list is a prefix, in order, of the normalized tag list:
\* after the first rejected tag no later tag is admitted, even one that fits.
C8_GreedyPrefix ==
  \A r \in Reqs :
    Success(r) => IsPrefix(Resp(r).tags, NormalizedTags(Candidate(r).tags.v))

\* a tag was rejected although a later tag would have fitted
C8_Witness ==
  \E r \in Reqs :
    /\ Success(r)
    /\ LET norm == NormalizedTags(Candidate(r).tags.v)
           out == Resp(r).tags
       IN  /\ out # <<>>
           /\ IsPrefix(out, norm)
           /\ \E j \in (Len(out) + 2)..Len(norm) :
                JoinedLen(out) + 2 + Len(norm[j]) <= body[r].tagsLength

(* C9 *)

\* C9: a request with an image issues exactly one call to the inference
\* collaborator, on the success and on the fallback path alike, and its
\* response is sent only after that call has returned or failed.
C9_ExactlyOneCall ==
  \A r \in Reqs :
    /\ calls[r] <= 1
    /\ pc[r] # "idle" /\ HasImage(r) => calls[r] = 1
    /\ sent[r] # <<>> /\ HasImage(r) => outcome[r] # NoOutcome
    /\ pc[r] = "awaiting" => sent[r] = <<>>

C9_Witness ==
  \E r \in Reqs :
    /\ Fallback(r) /\ HasImage(r) /\ outcome[r].kind = "reject" /\ calls[r] = 1

(* C10 *)

\* the response to a request that runs alone with body b and inference reply o
Alone(b, o) ==
  IF ~b.defined THEN Err500
  ELSE IF Falsy(b.image) THEN Err400
  ELSE Continue(b, o)

\* C10: with requests in flight at once, each request is answered as if it
\* had run alone with its own body and its own inference reply.
C10_RequestsIndependent ==
  \A r \in Reqs : Done(r) => sent[r] = <<Alone(body[r], outcome[r])>>

\* one request answered from its own limits while another, with other limits
\* and another reply, is still in flight
C10_Witness ==
  \E r, q \in Reqs :
    /\ r # q
    /\ Success(r) /\ pc[q] = "settled"
    /\ body[r] # body[q] /\ outcome[r] # outcome[q]
    /\ Resp(r).title = Str(Ellipsis)

(* C11 *)

\* the truncate-with-ellipsis rule: a field no longer than its limit is kept,
\* a longer one becomes its first (limit - 3) characters followed by "..."
\* (no characters at all when limit - 3 is not positive)
Ellipsized(s, limit) ==
  IF Len(s) <= limit
  THEN s
  ELSE [i \in 1..(limit - 3) |-> s[i]] \o <<".", ".", ".">>

ScenarioAResult ==
  [title |-> Str(Chars("A cat on a mat")),
   description |-> Str(Chars("A small orange cat sits on a blue mat...")),
   tags |-> <<Chars("cat"), Chars("mat"), Chars("indoor")>>]

\* C11: on the success path and on the fallback path alike, a title or
\* description no longer than its limit is returned unchanged and a longer one
\* is replaced by its first (limit - 3) characters followed by "..."; in
\* Scenario A with limits (20, 40, 20) the title is unchanged, the description
\* is its first 37 characters plus "..." and the tags are cat, mat, indoor.
C11_TruncateWithEllipsis ==
  \A r \in Reqs :
    /\ Success(r) /\ ValidShape(Candidate(r)) =>
         /\ Resp(r).title = Str(Ellipsized(Candidate(r).title.v, body[r].titleLength))
         /\ Resp(r).description =
              Str(Ellipsized(Candidate(r).description.v, body[r].descriptionLength))
    /\ Fallback(r) =>
         /\ Resp(r).title =
              Str(Ellipsized(FallbackTitle(body[r].titleLength), body[r].titleLength))
         /\ Resp(r).description =
              Str(Ellipsized(FallbackDescription, body[r].descriptionLength))
    /\ Done(r) /\ body[r] = ScenarioABody /\ outcome[r] = [kind |-> "text", text |-> ScenarioAText]
         => Resp(r) = Ok200("success", ScenarioAResult)

\* Scenario A has been answered
C11_Witness ==
  \E r \in Reqs :
    /\ Success(r) /\ body[r] = ScenarioABody
    /\ outcome[r] = [kind |-> "text", text |-> ScenarioAText]
    /\ Len(Resp(r).description.v) = 40
    /\ Len(Candidate(r).description.v) > 40

(* C12 *)

Occurs(text, l) == \E i \in 1..Len(text) : text[i] = l
FirstIndexOf(text, l) == SetMin({i \in 1..Len(text) : text[i] = l})
LastIndexOf(text, l) == SetMax({i \in 1..Len(text) : text[i] = l})

\* the text from its first '{' to its last '}'
GreedySpan(text) == SubSeq(text, FirstIndexOf(text, LBrace), LastIndexOf(text, RBrace))

\* some '{' of the text has a '}' after it
BraceBeforeClose(text) ==
  \E i, j \in 1..Len(text) : i < j /\ text[i] = LBrace /\ text[j] = RBrace

\* what the extractor does with a returned text once extraction succeeded or
\* failed: the span is the greedy one and is what is parsed, and a failed
\* extraction or a failed parse is answered with the fallback result
ExtractorRest(r) ==
  LET text == outcome[r].text
      m == JsonMatch(text)
  IN  /\ m.found => m.span = GreedySpan(text)
      /\ Done(r) /\ ~m.found => Fallback(r)
      /\ Done(r) /\ m.found /\ ~JsonValid(GreedySpan(text)) => Fallback(r)
      /\ Success(r) => m.found /\ JsonValid(GreedySpan(text))

\* C12 as stated: the extractor takes the text from the first '{' to the last
\* '}' and parses it; extraction fails exactly when the text has no '{' or no
\* '}'; a failed extraction and a span that is not valid JSON both lead to the
\* fallback.
C12_FailsIffBraceMissing ==
  \A r \in Reqs :
    outcome[r].kind = "text" =>
      /\ ~JsonMatch(outcome[r].text).found
           <=> (~Occurs(outcome[r].text, LBrace) \/ ~Occurs(outcome[r].text, RBrace))
      /\ ExtractorRest(r)

\* C12 as amended: the extractor takes the text from the first '{' to the last
\* '}' and parses it; extraction fails exactly when no '{' of the text has a
\* '}' after it (so also when every '}' precedes the first '{'); a failed
\* extraction and a span that is not valid JSON both lead to the fallback.
C12_FailsIffNoBracePair ==
  \A r \in Reqs :
    outcome[r].kind = "text" =>
      /\ ~JsonMatch(outcome[r].text).found <=> ~BraceBeforeClose(outcome[r].text)
      /\ ExtractorRest(r)

\* a text with a second '}' after the first one was extracted greedily, up to
\* its last '}'; the span did not parse and the fallback was sent
C12_Witness ==
  \E r \in Reqs :
    /\ Fallback(r) /\ outcome[r].kind = "text"
    /\ JsonMatch(outcome[r].text).found
    /\ JsonMatch(outcome[r].text).span = GreedySpan(outcome[r].text)
    /\ Len(JsonMatch(outcome[r].text).span) > Len(JsonMatchLazy(outcome[r].text).span)
    /\ ~JsonValid(JsonMatch(outcome[r].text).span)

(* C13 *)

\* the one response the control path of request r sends
PathResponse(r) ==
  IF ~body[r].defined THEN Resp(r) = Err500
  ELSE IF Falsy(body[r].image) THEN Resp(r) = Err400
  ELSE Resp(r).status = 200 /\ Resp(r).via \in {"success", "fallback"}

AtMostOneResponse ==
  \A r \in Reqs :
    /\ Len(sent[r]) <= 1
    /\ Done(r) <=> Len(sent[r]) = 1
    /\ Done(r) => PathResponse(r)

\* C13: every request receives exactly one response on every control path
\* (400, 200 success, 200 fallback, 500), no path sends two, and once the
\* inference call has returned or failed a response is eventually sent.
C13_ExactlyOneResponse ==
  /\ []AtMostOneResponse
  /\ \A r \in 1..NumReqs : (pc[r] = "settled") ~> (Len(sent[r]) = 1)

\* a request answered once, after its inference call failed
C13_Witness ==
  \E r \in Reqs :
    /\ Done(r) /\ outcome[r].kind = "reject"
    /\ sent[r] = <<Ok200("fallback", FallbackResult(body[r]))>>

====
